---- MODULE Spec2Model ----
(***************************************************************************)
(* Model of ScriptEngineerPro: the response parser of groqService.ts       *)
(* (parseModelResponse), the call layer around it (generateScript) and the *)
(* submit handler of App.tsx (handleSubmit).                               *)
(*                                                                         *)
(* Strings are sequences of tokens.  A token is one character (" ", "-",   *)
(* "|", ":", a letter, a digit, the newline NL) or one indivisible literal *)
(* of the source: a section marker (its emoji written as a bracket pair),   *)
(* the three-backtick fence, "N/A".                                        *)
(***************************************************************************)
EXTENDS Integers, Sequences, FiniteSets, TLC

\* ------------------------------------------------------------------ bounds
MaxLines == 3
MaxBullets == 2
MaxInflight == 2
MaxMetricValues == 3

\* ------------------------------------------------------------------ tokens
NL == "\n"
SP == " "
FENCE == "[three backticks]"
NA == "N/A"
MSummary == "[Summary]"
MAssumptions == "[Assumptions]"
MScript == "[Script]"
MTests == "[Tests]"
MDockerfile == "[Dockerfile]"
MCicd == "[CI/CD]"
MFailures == "[Failure Simulations]"
MMetrics == "[Metrics]"
MUsage == "[Usage]"

Markers ==
  {MSummary, MAssumptions, MScript, MTests, MDockerfile, MCicd, MFailures, MMetrics, MUsage}

DigitTokens == <<"0", "1", "2", "3", "4", "5", "6", "7", "8", "9">>

\* ------------------------------------------------- string primitives (JS)
IsWhitespace(c) == c \in {SP, NL}

RECURSIVE TrimStart(_)
TrimStart(s) ==
  IF s = <<>> THEN s
  ELSE IF IsWhitespace(Head(s)) THEN TrimStart(Tail(s)) ELSE s

RECURSIVE TrimEnd(_)
TrimEnd(s) ==
  IF s = <<>> THEN s
  ELSE IF IsWhitespace(s[Len(s)]) THEN TrimEnd(SubSeq(s, 1, Len(s) - 1)) ELSE s

\* String.prototype.trim
Trim(s) == TrimEnd(TrimStart(s))

\* variant: the text is looked for at the start only
Includes_Prefix(s, sub) ==
  Len(sub) <= Len(s) /\ SubSeq(s, 1, Len(sub)) = sub

\* String.prototype.includes
Includes(s, sub) ==
  \E i \in 0..(Len(s) - Len(sub)) : SubSeq(s, i + 1, i + Len(sub)) = sub

\* String.prototype.startsWith, for a one-token prefix
StartsWith(s, c) == s # <<>> /\ Head(s) = c

\* index of the first occurrence of token c in s, 0 when there is none
IndexOf(s, c) ==
  IF \E i \in 1..Len(s) : s[i] = c
  THEN CHOOSE i \in 1..Len(s) : s[i] = c /\ \A j \in 1..(i - 1) : s[j] # c
  ELSE 0

\* String.prototype.split with a one-token separator
RECURSIVE Split(_, _)
Split(s, sep) ==
  LET i == IndexOf(s, sep) IN
  IF i = 0 THEN <<s>>
  ELSE <<SubSeq(s, 1, i - 1)>> \o Split(SubSeq(s, i + 1, Len(s)), sep)

\* parts.map(p => p.trim())
TrimAll(parts) == [k \in 1..Len(parts) |-> Trim(parts[k])]

\* trimmed.replace(/.*?MARKER:?\s*/, '').trim()
RemoveHeader(trimmed, marker) ==
  LET i == IndexOf(trimmed, marker)
      rest == SubSeq(trimmed, i + 1, Len(trimmed))
      afterColon == IF StartsWith(rest, ":") THEN Tail(rest) ELSE rest
  IN  IF i = 0 THEN Trim(trimmed) ELSE Trim(TrimStart(afterColon))

IsDigit(c) == \E d \in 1..Len(DigitTokens) : DigitTokens[d] = c
DigitValue(c) == (CHOOSE d \in 1..Len(DigitTokens) : DigitTokens[d] = c) - 1

\* value of the longest all-digit prefix of s, continuing from acc
RECURSIVE LeadingDigits(_, _)
LeadingDigits(s, acc) ==
  IF s # <<>> /\ IsDigit(Head(s))
  THEN LeadingDigits(Tail(s), 10 * acc + DigitValue(Head(s)))
  ELSE acc

NaN == [nan |-> TRUE, val |-> 0]

\* parseInt(s): leading whitespace skipped, optional sign, decimal digits,
\* anything after the digits ignored; NaN when there is no digit
ParseInt(s) ==
  LET t == TrimStart(s)
      signed == StartsWith(t, "-") \/ StartsWith(t, "+")
      body == IF signed THEN Tail(t) ELSE t
      magnitude == LeadingDigits(body, 0)
  IN  IF body = <<>> \/ ~IsDigit(Head(body)) THEN NaN
      ELSE [nan |-> FALSE, val |-> IF StartsWith(t, "-") THEN 0 - magnitude ELSE magnitude]

\* JS  n || fallback  for a number n: NaN and 0 are falsy
OrDefault(n, fallback) == IF n.nan \/ n.val = 0 THEN fallback ELSE n.val


\* ------------------------------------------------------ program constants
\* groqService.ts, the error thrown for an empty completion
EmptyResponseMessage == "The engine returned an empty response."
\* groqService.ts, the error the catch block of generateScript throws
EngineFaultMessage ==
  "Failed to engineer script module. The engine encountered a verification fault."
\* App.tsx, the error thrown for a result without script
NoScriptMessage == "Script generation failed to produce a valid code block."
\* App.tsx, the fallback of  err.message || ...
DefaultFaultMessage == "An engineering fault occurred."

DefaultTimeSaved == 30
DefaultLinesProduced == 0
DefaultErrorsMitigated == 5
MinMetricsParts == 4
MinFailureParts == 3

NULL == "null"
NoResponse == <<>>

CodeSections == {"script", "tests", "dockerfile", "cicd"}

\* ------------------------------------------------------------------ state
VARIABLES
  description,     \* request.description, the textarea's content
  response,        \* useState<ScriptResponse | null>: NoResponse or <<result>>
  isLoading,       \* useState(false)
  error,           \* useState<string | null>
  activeTab,       \* useState<TabType>
  inflight,        \* completions.create calls neither resolved nor rejected
  pc,              \* where the running handler stands; "idle" between events
  callOutcome,     \* the awaited completion: "none", "resolved" or "rejected"
  text,            \* generateScript: the completion's content
  thrown,          \* the message of the Error travelling to the next catch
  lines,           \* parseModelResponse: text.split
  idx,             \* parseModelResponse: position of forEach in lines
  sections,        \* parseModelResponse: the record under construction
  currentSection,  \* parseModelResponse: "none" stands for null
  inCodeBlock      \* parseModelResponse

uiVars == <<description, response, isLoading, error, activeTab, inflight, callOutcome>>
parserVars == <<lines, idx, sections, currentSection, inCodeBlock>>
vars == <<description, response, isLoading, error, activeTab, inflight, callOutcome, pc, text,
          thrown, lines, idx, sections, currentSection, inCodeBlock>>

\* ------------------------------------------------------ parseModelResponse
\* variant: the record starts at the fallback values
InitialMetrics_Defaults ==
  [timeSavedMinutes |-> 30, linesProduced |-> 0, potentialErrorsMitigated |-> 5]

InitialMetrics ==
  [timeSavedMinutes |-> 0, linesProduced |-> 0, potentialErrorsMitigated |-> 0]

InitialSections ==
  [summary |-> <<>>, assumptions |-> <<>>, script |-> <<>>, tests |-> <<>>,
   dockerfile |-> <<>>, cicd |-> <<>>, failureSimulations |-> <<>>,
   metrics |-> InitialMetrics, usage |-> <<>>]

\* variant: the pass starts inside the summary section
InitialSection_Summary == "summary"

\* line 101: let currentSection = null
InitialSection == "none"

\* variant: every fallback is 0
MetricsOf_ZeroFallback(parts) ==
  [timeSavedMinutes |-> OrDefault(ParseInt(parts[2]), 0),
   linesProduced |-> OrDefault(ParseInt(parts[3]), 0),
   potentialErrorsMitigated |-> OrDefault(ParseInt(parts[4]), 0)]

\* the value built at lines 129-133 from the trimmed parts of a metrics line
MetricsOf(parts) ==
  [timeSavedMinutes |-> OrDefault(ParseInt(parts[2]), DefaultTimeSaved),
   linesProduced |-> OrDefault(ParseInt(parts[3]), DefaultLinesProduced),
   potentialErrorsMitigated |-> OrDefault(ParseInt(parts[4]), DefaultErrorsMitigated)]

\* the record pushed at lines 147-151
FailureOf(parts) ==
  [scenario |-> parts[1], trigger |-> parts[2], behavior |-> parts[3]]

\* a ? ' ' : ''
Separator(a) == IF a # <<>> THEN <<SP>> ELSE <<>>

\* variant: the line is appended without the substring test
SummaryLine_NoDedup(st, trimmed) ==
  [st EXCEPT !.sections.summary = @ \o Separator(@) \o trimmed]

\* lines 139-141: a non-empty line of the summary section
SummaryLine(st, trimmed) ==
  IF ~Includes(st.sections.summary, trimmed)
  THEN [st EXCEPT !.sections.summary = @ \o Separator(@) \o trimmed]
  ELSE st

\* variant: the entry is put in front of the list
AssumptionLine_Prepend(st, trimmed) ==
  [st EXCEPT !.sections.assumptions = <<Trim(Tail(trimmed))>> \o @]

\* line 143: a bullet of the assumptions section
AssumptionLine(st, trimmed) ==
  [st EXCEPT !.sections.assumptions = Append(@, Trim(Tail(trimmed)))]

\* variant: the parts are not trimmed
FailureLine_Untrimmed(st, trimmed) ==
  LET parts == Split(Tail(trimmed), "|") IN
  IF Len(parts) >= MinFailureParts
  THEN [st EXCEPT !.sections.failureSimulations = Append(@, FailureOf(parts))]
  ELSE st

\* lines 145-152: a bullet of the failures section
FailureLine(st, trimmed) ==
  LET parts == TrimAll(Split(Tail(trimmed), "|")) IN
  IF Len(parts) >= MinFailureParts
  THEN [st EXCEPT !.sections.failureSimulations = Append(@, FailureOf(parts))]
  ELSE st

\* variant: a fence line toggles inCodeBlock and is appended as well
CodeLine_KeepFence(st, line, trimmed) ==
  LET cur == st.currentSection IN
  [st EXCEPT
     !.inCodeBlock = IF StartsWith(trimmed, FENCE) THEN ~st.inCodeBlock ELSE @,
     !.sections.script = IF cur = "script" THEN @ \o line \o <<NL>> ELSE @,
     !.sections.tests = IF cur = "tests" THEN @ \o line \o <<NL>> ELSE @,
     !.sections.dockerfile = IF cur = "dockerfile" THEN @ \o line \o <<NL>> ELSE @,
     !.sections.cicd = IF cur = "cicd" THEN @ \o line \o <<NL>> ELSE @]

\* variant: a line is appended only between an opening and a closing fence
CodeLine_GatedByFence(st, line, trimmed) ==
  LET cur == st.currentSection IN
  IF StartsWith(trimmed, FENCE)
  THEN [st EXCEPT !.inCodeBlock = ~st.inCodeBlock]
  ELSE IF ~st.inCodeBlock THEN st
  ELSE [st EXCEPT
          !.sections.script = IF cur = "script" THEN @ \o line \o <<NL>> ELSE @,
          !.sections.tests = IF cur = "tests" THEN @ \o line \o <<NL>> ELSE @,
          !.sections.dockerfile = IF cur = "dockerfile" THEN @ \o line \o <<NL>> ELSE @,
          !.sections.cicd = IF cur = "cicd" THEN @ \o line \o <<NL>> ELSE @]

\* lines 154-161: a line of a code section
CodeLine(st, line, trimmed) ==
  LET cur == st.currentSection IN
  IF StartsWith(trimmed, FENCE)
  THEN [st EXCEPT !.inCodeBlock = ~st.inCodeBlock]
  ELSE [st EXCEPT
          !.sections.script = IF cur = "script" THEN @ \o line \o <<NL>> ELSE @,
          !.sections.tests = IF cur = "tests" THEN @ \o line \o <<NL>> ELSE @,
          !.sections.dockerfile = IF cur = "dockerfile" THEN @ \o line \o <<NL>> ELSE @,
          !.sections.cicd = IF cur = "cicd" THEN @ \o line \o <<NL>> ELSE @]

\* variant: a line that the usage text contains already is skipped
UsageLine_Dedup(st, trimmed) ==
  IF ~Includes(st.sections.usage, trimmed)
  THEN [st EXCEPT !.sections.usage = @ \o Separator(@) \o trimmed]
  ELSE st

\* line 163: a line of the usage section
UsageLine(st, trimmed) ==
  [st EXCEPT !.sections.usage = @ \o Separator(@) \o trimmed]

\* variant: the metrics marker opens a section of its own
MetricsMarkerLine_EntersSection(st, trimmed) ==
  LET parts == TrimAll(Split(trimmed, "|")) IN
  IF Len(parts) >= MinMetricsParts
  THEN [st EXCEPT !.sections.metrics = MetricsOf(parts), !.currentSection = "metrics"]
  ELSE [st EXCEPT !.currentSection = "metrics"]

\* lines 127-134: a metrics line
MetricsMarkerLine(st, trimmed) ==
  LET parts == TrimAll(Split(trimmed, "|")) IN
  IF Len(parts) >= MinMetricsParts
  THEN [st EXCEPT !.sections.metrics = MetricsOf(parts)]
  ELSE st

\* currentSection || ''
SectionOrEmpty(cur) == IF cur = "none" THEN "" ELSE cur

\* variant: the summary branch does not test currentSection for null
Accumulate_Unguarded(st, line, trimmed) ==
  LET cur == st.currentSection IN
  IF cur \in {"summary", "none"} /\ trimmed # <<>> THEN SummaryLine(st, trimmed)
  ELSE IF cur = "assumptions" /\ StartsWith(trimmed, "-") THEN AssumptionLine(st, trimmed)
  ELSE IF cur = "failures" /\ StartsWith(trimmed, "-") THEN FailureLine(st, trimmed)
  ELSE IF SectionOrEmpty(cur) \in CodeSections THEN CodeLine(st, line, trimmed)
  ELSE IF cur = "usage" /\ trimmed # <<>> /\ ~Includes(trimmed, <<MUsage>>)
    THEN UsageLine(st, trimmed)
  ELSE st

\* variant: every non-empty line of the assumptions section is an entry
Accumulate_AnyAssumption(st, line, trimmed) ==
  LET cur == st.currentSection IN
  IF cur = "summary" /\ trimmed # <<>> THEN SummaryLine(st, trimmed)
  ELSE IF cur = "assumptions" /\ trimmed # <<>> THEN AssumptionLine(st, trimmed)
  ELSE IF cur = "failures" /\ StartsWith(trimmed, "-") THEN FailureLine(st, trimmed)
  ELSE IF SectionOrEmpty(cur) \in CodeSections THEN CodeLine(st, line, trimmed)
  ELSE IF cur = "usage" /\ trimmed # <<>> /\ ~Includes(trimmed, <<MUsage>>)
    THEN UsageLine(st, trimmed)
  ELSE st

\* lines 138-164: the branches for a line without marker
Accumulate(st, line, trimmed) ==
  LET cur == st.currentSection IN
  IF cur = "summary" /\ trimmed # <<>> THEN SummaryLine(st, trimmed)
  ELSE IF cur = "assumptions" /\ StartsWith(trimmed, "-") THEN AssumptionLine(st, trimmed)
  ELSE IF cur = "failures" /\ StartsWith(trimmed, "-") THEN FailureLine(st, trimmed)
  ELSE IF SectionOrEmpty(cur) \in CodeSections THEN CodeLine(st, line, trimmed)
  ELSE IF cur = "usage" /\ trimmed # <<>> /\ ~Includes(trimmed, <<MUsage>>)
    THEN UsageLine(st, trimmed)
  ELSE st

\* variant: a code marker empties the buffer of its section
HandleLine_ResetOnEntry(st, line) ==
  LET trimmed == Trim(line) IN
  IF Includes(trimmed, <<MSummary>>) THEN
    [st EXCEPT !.currentSection = "summary",
               !.sections.summary = RemoveHeader(trimmed, MSummary)]
  ELSE IF Includes(trimmed, <<MAssumptions>>) THEN
    [st EXCEPT !.currentSection = "assumptions"]
  ELSE IF Includes(trimmed, <<MScript>>) THEN
    [st EXCEPT !.currentSection = "script", !.inCodeBlock = FALSE,
               !.sections.script = <<>>]
  ELSE IF Includes(trimmed, <<MTests>>) THEN
    [st EXCEPT !.currentSection = "tests", !.inCodeBlock = FALSE,
               !.sections.tests = <<>>]
  ELSE IF Includes(trimmed, <<MDockerfile>>) THEN
    [st EXCEPT !.currentSection = "dockerfile", !.inCodeBlock = FALSE,
               !.sections.dockerfile = <<>>]
  ELSE IF Includes(trimmed, <<MCicd>>) THEN
    [st EXCEPT !.currentSection = "cicd", !.inCodeBlock = FALSE,
               !.sections.cicd = <<>>]
  ELSE IF Includes(trimmed, <<MFailures>>) THEN
    [st EXCEPT !.currentSection = "failures"]
  ELSE IF Includes(trimmed, <<MMetrics>>) THEN
    MetricsMarkerLine(st, trimmed)
  ELSE IF Includes(trimmed, <<MUsage>>) THEN
    [st EXCEPT !.currentSection = "usage",
               !.sections.usage = RemoveHeader(trimmed, MUsage)]
  ELSE Accumulate(st, line, trimmed)

\* variant: a summary or usage marker adds the rest of its line to the text
\* accumulated so far
HandleLine_KeepOnReentry(st, line) ==
  LET trimmed == Trim(line) IN
  IF Includes(trimmed, <<MSummary>>) THEN
    [st EXCEPT !.currentSection = "summary",
               !.sections.summary = @ \o Separator(@) \o RemoveHeader(trimmed, MSummary)]
  ELSE IF Includes(trimmed, <<MAssumptions>>) THEN
    [st EXCEPT !.currentSection = "assumptions"]
  ELSE IF Includes(trimmed, <<MScript>>) THEN
    [st EXCEPT !.currentSection = "script", !.inCodeBlock = FALSE]
  ELSE IF Includes(trimmed, <<MTests>>) THEN
    [st EXCEPT !.currentSection = "tests", !.inCodeBlock = FALSE]
  ELSE IF Includes(trimmed, <<MDockerfile>>) THEN
    [st EXCEPT !.currentSection = "dockerfile", !.inCodeBlock = FALSE]
  ELSE IF Includes(trimmed, <<MCicd>>) THEN
    [st EXCEPT !.currentSection = "cicd", !.inCodeBlock = FALSE]
  ELSE IF Includes(trimmed, <<MFailures>>) THEN
    [st EXCEPT !.currentSection = "failures"]
  ELSE IF Includes(trimmed, <<MMetrics>>) THEN
    MetricsMarkerLine(st, trimmed)
  ELSE IF Includes(trimmed, <<MUsage>>) THEN
    [st EXCEPT !.currentSection = "usage",
               !.sections.usage = @ \o Separator(@) \o RemoveHeader(trimmed, MUsage)]
  ELSE Accumulate(st, line, trimmed)

\* The body of the forEach callback, lines 105-164: the parser's locals
\* st = [sections, currentSection, inCodeBlock] after one line.
HandleLine(st, line) ==
  LET trimmed == Trim(line) IN
  IF Includes(trimmed, <<MSummary>>) THEN
    [st EXCEPT !.currentSection = "summary",
               !.sections.summary = RemoveHeader(trimmed, MSummary)]
  ELSE IF Includes(trimmed, <<MAssumptions>>) THEN
    [st EXCEPT !.currentSection = "assumptions"]
  ELSE IF Includes(trimmed, <<MScript>>) THEN
    [st EXCEPT !.currentSection = "script", !.inCodeBlock = FALSE]
  ELSE IF Includes(trimmed, <<MTests>>) THEN
    [st EXCEPT !.currentSection = "tests", !.inCodeBlock = FALSE]
  ELSE IF Includes(trimmed, <<MDockerfile>>) THEN
    [st EXCEPT !.currentSection = "dockerfile", !.inCodeBlock = FALSE]
  ELSE IF Includes(trimmed, <<MCicd>>) THEN
    [st EXCEPT !.currentSection = "cicd", !.inCodeBlock = FALSE]
  ELSE IF Includes(trimmed, <<MFailures>>) THEN
    [st EXCEPT !.currentSection = "failures"]
  ELSE IF Includes(trimmed, <<MMetrics>>) THEN
    MetricsMarkerLine(st, trimmed)
  ELSE IF Includes(trimmed, <<MUsage>>) THEN
    [st EXCEPT !.currentSection = "usage",
               !.sections.usage = RemoveHeader(trimmed, MUsage)]
  ELSE Accumulate(st, line, trimmed)

\* variant: the N/A sentinel is kept
Normalise_KeepSentinel(sec) ==
  [sec EXCEPT !.script = Trim(sec.script),
              !.tests = Trim(sec.tests),
              !.dockerfile = Trim(sec.dockerfile),
              !.cicd = Trim(sec.cicd)]

\* lines 167-171: the normalisation after the pass
Normalise(sec) ==
  LET trimmedTests == Trim(sec.tests) IN
  [sec EXCEPT !.script = Trim(sec.script),
              !.tests = IF trimmedTests = <<NA>> THEN <<>> ELSE trimmedTests,
              !.dockerfile = Trim(sec.dockerfile),
              !.cicd = Trim(sec.cicd)]

\* lines 88-102: the locals of a fresh call on the text t
ParserStart(t) ==
  /\ lines' = Split(t, NL)
  /\ idx' = 1
  /\ sections' = InitialSections
  /\ currentSection' = InitialSection
  /\ inCodeBlock' = FALSE

\* one iteration of lines.forEach
ParseLine ==
  /\ pc = "parsing"
  /\ idx <= Len(lines)
  /\ LET st == HandleLine([sections |-> sections, currentSection |-> currentSection,
                           inCodeBlock |-> inCodeBlock], lines[idx])
     IN  /\ sections' = st.sections
         /\ currentSection' = st.currentSection
         /\ inCodeBlock' = st.inCodeBlock
  /\ idx' = idx + 1
  /\ UNCHANGED <<uiVars, pc, text, thrown, lines>>

\* the end of the pass: normalise and return sections to generateScript
PostPass ==
  /\ pc = "parsing"
  /\ idx > Len(lines)
  /\ sections' = Normalise(sections)
  /\ pc' = "returned"
  /\ UNCHANGED <<uiVars, text, thrown, lines, idx, currentSection, inCodeBlock>>


\* ---------------------------------------------------------- generateScript
\* message of an error raised by the SDK call itself
TransportMessage == "Connection error."

\* response.choices[0]?.message?.content || "" for a content that is
\* missing (<<>>) or present (<<t>>)
ContentOrEmpty(content) == IF content = <<>> THEN <<>> ELSE content[1]

\* the awaited completions.create call rejects
CallRejects ==
  /\ pc = "idle"
  /\ inflight > 0
  /\ inflight' = inflight - 1
  /\ callOutcome' = "rejected"
  /\ thrown' = TransportMessage
  /\ pc' = "gen_catch"
  /\ UNCHANGED <<description, response, isLoading, error, activeTab, text, parserVars>>

\* the awaited completions.create call resolves; line 77
CallResolvesWith(content) ==
  /\ pc = "idle"
  /\ inflight > 0
  /\ inflight' = inflight - 1
  /\ callOutcome' = "resolved"
  /\ text' = ContentOrEmpty(content)
  /\ pc' = "resolved"
  /\ UNCHANGED <<description, response, isLoading, error, activeTab, thrown, parserVars>>

\* variant: the text is parsed without the emptiness test
CheckText_Unguarded ==
  /\ pc = "resolved"
  /\ ParserStart(text)
  /\ pc' = "parsing"
  /\ UNCHANGED <<uiVars, text, thrown>>

\* lines 78-80: throw on empty text, else call parseModelResponse
CheckText ==
  /\ pc = "resolved"
  /\ IF text = <<>>
     THEN /\ thrown' = EmptyResponseMessage
          /\ pc' = "gen_catch"
          /\ UNCHANGED parserVars
     ELSE /\ ParserStart(text)
          /\ pc' = "parsing"
          /\ UNCHANGED thrown
  /\ UNCHANGED <<uiVars, text>>

\* lines 81-84: whatever was thrown in the try block is replaced
GenCatch ==
  /\ pc = "gen_catch"
  /\ thrown' = EngineFaultMessage
  /\ pc' = "hs_catch"
  /\ UNCHANGED <<uiVars, text, parserVars>>

\* ------------------------------------------------------------ handleSubmit
Tabs == {"script", "tests", "dockerfile", "cicd", "failures"}

\* variant: the button is disabled for a blank description only
SubmitDisabled_IgnoresLoading == Trim(description) = <<>>

\* the disabled attribute of the submit button
SubmitDisabled == isLoading \/ Trim(description) = <<>>

\* variant: the description is not looked at
HandleSubmit_Unguarded ==
  /\ inflight < MaxInflight
  /\ isLoading' = TRUE
  /\ error' = NULL
  /\ response' = NoResponse
  /\ activeTab' = "script"
  /\ inflight' = inflight + 1
  /\ callOutcome' = "none"
  /\ UNCHANGED <<description, pc, text, thrown, parserVars>>

\* variant: the error of the previous request is left in place
HandleSubmit_KeepsError ==
  IF Trim(description) = <<>>
  THEN UNCHANGED vars
  ELSE /\ inflight < MaxInflight
       /\ isLoading' = TRUE
       /\ response' = NoResponse
       /\ activeTab' = "script"
       /\ inflight' = inflight + 1
       /\ callOutcome' = "none"
       /\ UNCHANGED <<description, error, pc, text, thrown, parserVars>>

\* lines 65-75 up to the await, generateScript's call included
HandleSubmit ==
  IF Trim(description) = <<>>
  THEN UNCHANGED vars
  ELSE /\ inflight < MaxInflight
       /\ isLoading' = TRUE
       /\ error' = NULL
       /\ response' = NoResponse
       /\ activeTab' = "script"
       /\ inflight' = inflight + 1
       /\ callOutcome' = "none"
       /\ UNCHANGED <<description, pc, text, thrown, parserVars>>

\* the form's onSubmit, reachable through the enabled submit button
FormSubmit ==
  /\ pc = "idle"
  /\ ~SubmitDisabled
  /\ HandleSubmit

\* the Retry button, rendered while error is set
RetryClick ==
  /\ pc = "idle"
  /\ error # NULL
  /\ HandleSubmit

\* the textarea's onChange
SetDescription(d) ==
  /\ pc = "idle"
  /\ description' = d
  /\ UNCHANGED <<response, isLoading, error, activeTab, inflight, callOutcome, pc, text,
                 thrown, parserVars>>

\* a tab button is rendered for script and failures, and for a non-empty blob
TabShown(t) ==
  /\ response # NoResponse
  /\ t \in {"tests", "dockerfile", "cicd"} => response[1][t] # <<>>

TabClick(t) ==
  /\ pc = "idle"
  /\ TabShown(t)
  /\ activeTab' = t
  /\ UNCHANGED <<description, response, isLoading, error, inflight, callOutcome, pc, text,
                 thrown, parserVars>>

\* variant: the result is stored without looking at its script
CheckResult_Unguarded ==
  /\ pc = "returned"
  /\ response' = <<sections>>
  /\ pc' = "hs_finally"
  /\ UNCHANGED <<description, isLoading, error, activeTab, inflight, callOutcome, text,
                 thrown, parserVars>>

\* lines 76-79, after generateScript returned
CheckResult ==
  /\ pc = "returned"
  /\ IF sections.script = <<>>
     THEN /\ thrown' = NoScriptMessage
          /\ pc' = "hs_catch"
          /\ UNCHANGED response
     ELSE /\ response' = <<sections>>
          /\ pc' = "hs_finally"
          /\ UNCHANGED thrown
  /\ UNCHANGED <<description, isLoading, error, activeTab, inflight, callOutcome, text,
                 parserVars>>

\* variant: the catch block sets the error and calls generateScript again
SubmitCatch_AutoRetry ==
  /\ pc = "hs_catch"
  /\ inflight < MaxInflight
  /\ error' = IF thrown = "" THEN DefaultFaultMessage ELSE thrown
  /\ inflight' = inflight + 1
  /\ callOutcome' = "none"
  /\ pc' = "idle"
  /\ UNCHANGED <<description, response, isLoading, activeTab, text, thrown, parserVars>>

\* lines 80-81
SubmitCatch ==
  /\ pc = "hs_catch"
  /\ error' = IF thrown = "" THEN DefaultFaultMessage ELSE thrown
  /\ pc' = "hs_finally"
  /\ UNCHANGED <<description, response, isLoading, activeTab, inflight, callOutcome, text,
                 thrown, parserVars>>

\* variant: the handler ends without leaving the loading state
SubmitFinally_KeepsLoading ==
  /\ pc = "hs_finally"
  /\ pc' = "idle"
  /\ UNCHANGED <<description, response, isLoading, error, activeTab, inflight, callOutcome,
                 text, thrown, parserVars>>

\* lines 82-84
SubmitFinally ==
  /\ pc = "hs_finally"
  /\ isLoading' = FALSE
  /\ pc' = "idle"
  /\ UNCHANGED <<description, response, error, activeTab, inflight, callOutcome, text,
                 thrown, parserVars>>


\* ------------------------------------------------------------------ inputs
\* lines a completion may carry
SummaryHeader == <<MSummary, ":", SP, "a">>
AssumptionsHeader == <<MAssumptions, ":">>
ScriptHeader == <<MScript, ":">>
TestsHeader == <<MTests, ":">>
DockerfileHeader == <<MDockerfile, ":">>
CicdHeader == <<MCicd, ":">>
FailuresHeader == <<MFailures, ":">>
UsageHeader == <<MUsage, ":", SP, "b">>
MetricsFull ==
  <<MMetrics, SP, "|", SP, "9", "0", SP, "|", SP, "2", "4", "0", SP, "|", SP, "7">>
MetricsShort == <<MMetrics, SP, "|", SP, "9", SP, "|", SP, "7">>
MetricsOdd == <<MMetrics, "|", "a", "|", "0", "|", "-", "3">>
PlainA == <<SP, SP, "a">>
PlainB == <<"b">>
Bullet == <<"-", SP, "a">>
BulletPair == <<"-", "a", "|", "b">>
BulletTriple == <<"-", SP, "a", SP, "|", SP, "b", SP, "|", "c">>
BulletQuad == <<SP, "-", "b", "|", "a", "|", "b", "|", "c">>
FenceOpen == <<SP, FENCE, "p", "y">>
FenceClose == <<FENCE>>
EmptyLine == <<>>
NotApplicable == <<SP, NA, SP>>
Embedded == <<"c", SP, MScript, SP, MSummary, SP, "b">>

\* the lines that arbitrary texts are made of
FreeLines ==
  {SummaryHeader, AssumptionsHeader, ScriptHeader, TestsHeader, FailuresHeader,
   UsageHeader, MetricsShort, MetricsOdd, PlainA, PlainB, Bullet, BulletQuad,
   FenceOpen, EmptyLine, Embedded}

SeqsUpTo(S, n) == UNION {[1..k -> S] : k \in 0..n}

\* the text whose lines are ls
RECURSIVE Join(_)
Join(ls) ==
  IF ls = <<>> THEN <<>>
  ELSE IF Len(ls) = 1 THEN ls[1]
  ELSE ls[1] \o <<NL>> \o Join(Tail(ls))

\* a metrics line carrying the given values after the marker
RECURSIVE MetricsLine(_)
MetricsLine(values) ==
  IF values = <<>> THEN <<MMetrics>>
  ELSE MetricsLine(SubSeq(values, 1, Len(values) - 1))
         \o <<SP, "|", SP>> \o values[Len(values)]

IntegerValues == {<<"9", "0">>, <<"0">>, <<"-", "3">>}
MetricValues == IntegerValues \cup {<<"a">>, <<>>, <<"7", "a">>}

\* texts of up to MaxLines arbitrary lines
FreeTexts == {Join(ls) : ls \in SeqsUpTo(FreeLines, MaxLines)}

\* texts of one metrics line with up to MaxMetricValues values
MetricsTexts == {MetricsLine(vs) : vs \in SeqsUpTo(MetricValues, MaxMetricValues)}

\* texts of two code sections, a section possibly entered twice
CodeHeaders == {ScriptHeader, TestsHeader, DockerfileHeader, CicdHeader}
CodeBodies ==
  {<<PlainA>>, <<FenceOpen, PlainB, FenceClose>>, <<NotApplicable>>,
   <<NotApplicable, PlainB>>}

CodeTexts ==
  {Join(<<h1>> \o b1 \o <<h2>> \o b2) :
     h1 \in CodeHeaders, b1 \in CodeBodies, h2 \in CodeHeaders, b2 \in CodeBodies}

\* texts of two list sections, a section possibly entered twice
ListHeaders == {AssumptionsHeader, FailuresHeader}
ListBullets == {Bullet, BulletPair, BulletQuad}

ListTexts ==
  {Join(<<h1, b1, h2, b2, b3>>) :
     h1 \in ListHeaders, b1 \in ListBullets, h2 \in ListHeaders, b2 \in ListBullets,
     b3 \in ListBullets}

\* texts of two text sections with one line each, a section possibly
\* entered twice
TextHeaders == {SummaryHeader, UsageHeader}
TextLines == {PlainB, EmptyLine, Bullet}

TextTexts ==
  {Join(<<h1, l1, h2, l2>>) :
     h1 \in TextHeaders, l1 \in TextLines, h2 \in TextHeaders, l2 \in TextLines}

\* texts in the format the system instruction asks for: the nine markers once
\* each and in order, every section with a body
BodyProfiles ==
  {[assumptions |-> <<Bullet>>, script |-> <<PlainA>>, tests |-> <<NotApplicable>>],
   [assumptions |-> <<PlainB, Bullet, BulletPair>>,
    script |-> <<FenceOpen, PlainA, EmptyLine, PlainB, FenceClose>>,
    tests |-> <<FenceOpen, PlainB, FenceClose>>]}
FailureBullets == {BulletTriple, BulletQuad, BulletPair}
FailureBodies == SeqsUpTo(FailureBullets, MaxBullets) \ {<<>>}

CanonicalLines ==
  {<<SummaryHeader, AssumptionsHeader>> \o bp.assumptions \o <<ScriptHeader>> \o bp.script
     \o <<TestsHeader>> \o bp.tests \o <<DockerfileHeader, PlainA, CicdHeader, PlainB>>
     \o <<FailuresHeader>> \o fb \o <<MetricsLine(<<x, y, z>>), UsageHeader>> :
   bp \in BodyProfiles, fb \in FailureBodies,
   x \in IntegerValues, y \in IntegerValues, z \in IntegerValues}

CanonicalTexts == {Join(ls) : ls \in CanonicalLines}

\* the non-empty texts parseModelResponse is applied to
Texts ==
  (FreeTexts \cup MetricsTexts \cup CodeTexts \cup ListTexts \cup TextTexts
     \cup CanonicalTexts) \ {<<>>}

\* what the completion of a request may carry: no content, or a text
Contents ==
  {<<>>, <<<<>>>>, <<PlainB>>, <<ScriptHeader>>, <<Join(<<ScriptHeader, PlainB>>)>>,
   <<Join(<<ScriptHeader, PlainB, TestsHeader, PlainA, MetricsFull>>)>>,
   <<Join(<<SummaryHeader, ScriptHeader, FenceOpen, FenceClose>>)>>}

Descriptions == {<<>>, <<SP>>, <<"a">>}

\* ---------------------------------------------------------- specifications
CallResolves == \E content \in Contents : CallResolvesWith(content)
EditDescription == \E d \in Descriptions : SetDescription(d)
SelectTab == \E t \in Tabs : TabClick(t)

\* the application after its first render
Init ==
  /\ description = <<>>
  /\ response = NoResponse
  /\ isLoading = FALSE
  /\ error = NULL
  /\ activeTab = "script"
  /\ inflight = 0
  /\ callOutcome = "none"
  /\ pc = "idle"
  /\ text = <<>>
  /\ thrown = NULL
  /\ lines = <<>>
  /\ idx = 1
  /\ sections = InitialSections
  /\ currentSection = "none"
  /\ inCodeBlock = FALSE

Next ==
  \/ EditDescription
  \/ FormSubmit
  \/ RetryClick
  \/ SelectTab
  \/ CallRejects
  \/ CallResolves
  \/ CheckText
  \/ ParseLine
  \/ PostPass
  \/ GenCatch
  \/ CheckResult
  \/ SubmitCatch
  \/ SubmitFinally

Spec == Init /\ [][Next]_vars

\* the awaited call completes, one way or the other
CallCompletes == CallRejects \/ CallResolves

\* a step of the continuation of generateScript and handleSubmit after the
\* await, outside the loop of the parser; the continuation runs to its end
\* without yielding
ContinuationStep ==
  \/ CheckText
  \/ PostPass
  \/ GenCatch
  \/ CheckResult
  \/ SubmitCatch
  \/ SubmitFinally

\* lines.forEach runs on: weak fairness of ParseLine, written with the guard
\* of ParseLine, which is what enables it (every ParseLine step moves idx)
ParseProgress ==
  \/ []<>(~(pc = "parsing" /\ idx <= Len(lines)))
  \/ []<><<ParseLine>>_vars

\* the application when every pending call completes and every continuation
\* runs on; the user stays free to do nothing
SpecLive ==
  Spec /\ WF_vars(CallCompletes) /\ WF_vars(ContinuationStep) /\ ParseProgress

\* parseModelResponse entered by generateScript with a text of Texts
InitParse ==
  /\ description = <<"a">>
  /\ response = NoResponse
  /\ isLoading = TRUE
  /\ error = NULL
  /\ activeTab = "script"
  /\ inflight = 0
  /\ callOutcome = "resolved"
  /\ pc = "parsing"
  /\ text \in Texts
  /\ thrown = NULL
  /\ lines = Split(text, NL)
  /\ idx = 1
  /\ sections = InitialSections
  /\ currentSection = InitialSection
  /\ inCodeBlock = FALSE

NextParse ==
  \/ ParseLine
  \/ PostPass

SpecParse == InitParse /\ [][NextParse]_vars


\* ------------------------------------------------- reading the input lines
MarkerOrder ==
  <<MSummary, MAssumptions, MScript, MTests, MDockerfile, MCicd, MFailures, MMetrics,
    MUsage>>

\* the marker substring m occurs in the line
HasMarker(line, m) == \E j \in 1..Len(line) : line[j] = m

HasAnyMarker(line) == \E m \in Markers : HasMarker(line, m)

\* the input mentions the marker m somewhere
MarkerAppears(m) == \E k \in 1..Len(lines) : HasMarker(lines[k], m)

\* the line is one the parser treats as a metrics line: it carries the metrics
\* marker and none of the markers tested before it
IsMetricsLine(line) ==
  /\ HasMarker(line, MMetrics)
  /\ \A k \in 1..7 : ~HasMarker(line, MarkerOrder[k])

PartsOf(line) == TrimAll(Split(Trim(line), "|"))

\* positions of the metrics lines with at least four parts
FullMetricsLines ==
  {k \in 1..Len(lines) : IsMetricsLine(lines[k]) /\ Len(PartsOf(lines[k])) >= 4}

Max(S) == CHOOSE x \in S : \A y \in S : y <= x

\* the parts of the last metrics line with at least four parts
LastMetricsParts == PartsOf(lines[Max(FullMetricsLines)])

MetricFields == <<"timeSavedMinutes", "linesProduced", "potentialErrorsMitigated">>
DocumentedDefaults ==
  [timeSavedMinutes |-> 30, linesProduced |-> 0, potentialErrorsMitigated |-> 5]
AllZero == [timeSavedMinutes |-> 0, linesProduced |-> 0, potentialErrorsMitigated |-> 0]

\* ------------------------------------------------------------------ claims

\* C1: parseModelResponse is total: the pass runs over every line of every
\* non-empty text and ends with a well-formed record, in which every section
\* whose marker never appears is still empty (the empty string for summary,
\* script, tests, dockerfile, cicd and usage, the empty list for assumptions
\* and failureSimulations).
C1_TotalAndPartial ==
  pc \in {"parsing", "returned"} =>
    /\ text # <<>>
    /\ idx \in 1..(Len(lines) + 1)
    /\ pc = "returned" => idx = Len(lines) + 1
    /\ DOMAIN sections = DOMAIN InitialSections
    /\ DOMAIN sections.metrics = DOMAIN InitialMetrics
    /\ ~MarkerAppears(MSummary) => sections.summary = <<>>
    /\ ~MarkerAppears(MAssumptions) => sections.assumptions = <<>>
    /\ ~MarkerAppears(MScript) => sections.script = <<>>
    /\ ~MarkerAppears(MTests) => sections.tests = <<>>
    /\ ~MarkerAppears(MDockerfile) => sections.dockerfile = <<>>
    /\ ~MarkerAppears(MCicd) => sections.cicd = <<>>
    /\ ~MarkerAppears(MFailures) => sections.failureSimulations = <<>>
    /\ ~MarkerAppears(MUsage) => sections.usage = <<>>

\* a pass has ended on an input with a script section and content lines, but
\* without tests, summary or failures marker
C1_Witness ==
  /\ pc = "returned"
  /\ sections.script # <<>>
  /\ ~MarkerAppears(MTests) /\ ~MarkerAppears(MSummary) /\ ~MarkerAppears(MFailures)
  /\ \E k \in 1..Len(lines) : lines[k] = Bullet
  /\ sections.tests = <<>> /\ sections.summary = <<>>
  /\ sections.failureSimulations = <<>>

\* C2: a completion that resolves with empty or missing text makes
\* generateScript throw to handleSubmit, and parseModelResponse is entered
\* only with a non-empty text (whose lines it then reads).
C2_EmptyTextThrows ==
  /\ pc \in {"parsing", "returned"} => text # <<>> /\ lines = Split(text, NL)
  /\ (callOutcome = "resolved" /\ text = <<>>) =>
       /\ pc \in {"resolved", "gen_catch", "hs_catch", "hs_finally", "idle"}
       /\ pc \in {"gen_catch", "hs_catch", "hs_finally", "idle"} => thrown # NULL
       /\ pc \in {"hs_finally", "idle"} => error # NULL /\ response = NoResponse

\* the error of an empty completion has arrived in handleSubmit's catch
C2_Witness ==
  /\ callOutcome = "resolved"
  /\ text = <<>>
  /\ pc = "hs_catch"
  /\ thrown # NULL

\* C3: the error generateScript throws to its caller for a completion that
\* resolved with empty text has another message than the one it throws when
\* the call itself failed (the message of its catch block).
C3_EmptyDistinctFromTransport ==
  (pc = "hs_catch" /\ callOutcome = "resolved" /\ text = <<>>) =>
    thrown # EngineFaultMessage

\* C4: a result whose script is empty is not stored: handleSubmit sets an
\* error that differs from the transport-fault message, and a non-null
\* response always has a non-empty script.
C4_NoEmptyScriptStored ==
  /\ response # NoResponse => response[1].script # <<>>
  /\ (callOutcome = "resolved" /\ text # <<>> /\ sections.script = <<>>
        /\ pc \in {"hs_catch", "hs_finally", "idle"}) =>
       /\ response = NoResponse
       /\ thrown = NoScriptMessage
       /\ pc # "hs_catch" => error = NoScriptMessage /\ error # EngineFaultMessage

\* the handler has finished on a parsed result without script
C4_Witness ==
  /\ pc = "idle"
  /\ callOutcome = "resolved"
  /\ text # <<>>
  /\ sections.script = <<>>
  /\ error = NoScriptMessage
  /\ ~isLoading

\* C5 as stated: the returned metrics hold the documented defaults (30, 0, 5)
\* when the input has no metrics line with values, and in every field whose
\* value on the metrics line cannot be parsed.
C5_DefaultsWhereverAbsent ==
  pc = "returned" =>
    IF FullMetricsLines = {}
    THEN sections.metrics = DocumentedDefaults
    ELSE \A f \in 1..3 :
           ParseInt(LastMetricsParts[f + 1]).nan =>
             sections.metrics[MetricFields[f]] = DocumentedDefaults[MetricFields[f]]

\* C5 amended: the returned metrics hold the documented default (30, 0, 5) in
\* every field whose value on the last metrics line with at least four parts
\* cannot be parsed; without such a line they are (0, 0, 0).
C5_DefaultsOnUnparsable ==
  pc = "returned" =>
    IF FullMetricsLines = {}
    THEN sections.metrics = AllZero
    ELSE \A f \in 1..3 :
           ParseInt(LastMetricsParts[f + 1]).nan =>
             sections.metrics[MetricFields[f]] = DocumentedDefaults[MetricFields[f]]

\* a pass has ended on a metrics line whose three values are all unparsable
C5_Witness ==
  /\ pc = "returned"
  /\ FullMetricsLines # {}
  /\ \A f \in 1..3 : ParseInt(LastMetricsParts[f + 1]).nan
  /\ sections.metrics = DocumentedDefaults

\* C6: when no metrics line of the input has at least four parts, the metrics
\* are (0, 0, 0), during the pass and in the result.
C6_ZeroWithoutFullMetricsLine ==
  (pc \in {"parsing", "returned"} /\ FullMetricsLines = {}) => sections.metrics = AllZero

\* a pass has ended on an input whose only metrics lines have fewer than four
\* parts
C6_Witness ==
  /\ pc = "returned"
  /\ FullMetricsLines = {}
  /\ \E k \in 1..Len(lines) : IsMetricsLine(lines[k]) /\ Len(PartsOf(lines[k])) = 3
  /\ sections.metrics = AllZero

\* C7: after a metrics line with at least four parts, each field is the
\* integer its part parses to, and is the fallback (30, 0, 5) only when the
\* part does not parse as an integer.
C7_ParsedValuesStored ==
  (pc = "returned" /\ FullMetricsLines # {}) =>
    \A f \in 1..3 :
      LET n == ParseInt(LastMetricsParts[f + 1]) IN
      sections.metrics[MetricFields[f]] =
        IF n.nan THEN DocumentedDefaults[MetricFields[f]] ELSE n.val

\* C8: the three metrics are never negative.
C8_MetricsNonNegative ==
  pc \in {"parsing", "returned"} =>
    \A f \in 1..3 : sections.metrics[MetricFields[f]] >= 0


\* --------------------------------------------------- the well-formed input
\* how often the marker m occurs in the input
Occurrences(m) ==
  Cardinality({<<k, j>> \in (1..Len(lines)) \X (1..20) :
                 j <= Len(lines[k]) /\ lines[k][j] = m})

\* the line of the marker m, for a marker that occurs once
LineOf(m) == CHOOSE k \in 1..Len(lines) : HasMarker(lines[k], m)

\* the lines strictly between the lines of the markers m and n, the metrics
\* line left out
Between(m, n) ==
  {k \in (LineOf(m) + 1)..(LineOf(n) - 1) : ~HasAnyMarker(lines[k])}

IsBlank(line) == Trim(line) = <<>>
IsBullet(line) == StartsWith(Trim(line), "-")
IsFence(line) == StartsWith(Trim(line), FENCE)

\* the part is an optionally signed decimal integer
IsInteger(part) ==
  LET body == IF StartsWith(part, "-") THEN Tail(part) ELSE part IN
  body # <<>> /\ \A j \in 1..Len(body) : IsDigit(body[j])

\* a failure bullet in the documented form  - scenario | trigger | behavior
IsFailureBullet(line) ==
  IsBullet(line) /\ Len(Split(Tail(Trim(line)), "|")) >= 3

\* all nine markers once each, in the order of the system instruction, every
\* section with a body, the metrics line with three integers
WellFormed ==
  /\ \A m \in Markers : Occurrences(m) = 1
  /\ \A i \in 1..8 : LineOf(MarkerOrder[i]) < LineOf(MarkerOrder[i + 1])
  /\ \/ RemoveHeader(Trim(lines[LineOf(MSummary)]), MSummary) # <<>>
     \/ \E k \in Between(MSummary, MAssumptions) : ~IsBlank(lines[k])
  /\ \E k \in Between(MAssumptions, MScript) : IsBullet(lines[k])
  /\ \E k \in Between(MScript, MTests) : ~IsBlank(lines[k]) /\ ~IsFence(lines[k])
  /\ \E k \in Between(MTests, MDockerfile) : ~IsBlank(lines[k]) /\ ~IsFence(lines[k])
  /\ \E k \in Between(MDockerfile, MCicd) : ~IsBlank(lines[k]) /\ ~IsFence(lines[k])
  /\ \E k \in Between(MCicd, MFailures) : ~IsBlank(lines[k]) /\ ~IsFence(lines[k])
  /\ \E k \in Between(MFailures, MUsage) : IsBullet(lines[k])
  /\ Len(PartsOf(lines[LineOf(MMetrics)])) = 4
  /\ \A f \in 1..3 : IsInteger(PartsOf(lines[LineOf(MMetrics)])[f + 1])
  /\ RemoveHeader(Trim(lines[LineOf(MUsage)]), MUsage) # <<>>

\* C9: for a well-formed input the result has a non-empty summary, a non-empty
\* assumptions list, a non-empty script and a non-empty usage, as many failure
\* simulations as the input has well-formed failure bullets, and the three
\* integers of the metrics line as its metrics.
C9_WellFormedRecovered ==
  (pc = "returned" /\ WellFormed) =>
    /\ sections.summary # <<>>
    /\ sections.assumptions # <<>>
    /\ sections.script # <<>>
    /\ sections.usage # <<>>
    /\ Len(sections.failureSimulations) =
         Cardinality({k \in Between(MFailures, MUsage) : IsFailureBullet(lines[k])})
    /\ \A f \in 1..3 :
         sections.metrics[MetricFields[f]] =
           ParseInt(PartsOf(lines[LineOf(MMetrics)])[f + 1]).val

\* C10: nothing is captured without a marker: on an input no line of which
\* contains a marker every field keeps its initial value, and a line without
\* marker read while currentSection is still null changes no field.
C10_NothingWithoutMarker ==
  /\ [](pc \in {"parsing", "returned"} /\ (\A k \in 1..Len(lines) : ~HasAnyMarker(lines[k]))
          => /\ currentSection = "none"
             /\ sections.metrics = AllZero
             /\ \A f \in DOMAIN sections \ {"metrics"} : sections[f] = <<>>)
  /\ [][(pc = "parsing" /\ idx <= Len(lines) /\ currentSection = "none"
           /\ ~HasAnyMarker(lines[idx]))
          => (sections' = sections /\ currentSection' = "none")]_vars

\* a pass has ended on an input of content lines without any marker
C10_Witness ==
  /\ pc = "returned"
  /\ \A k \in 1..Len(lines) : ~HasAnyMarker(lines[k])
  /\ \E k \in 1..Len(lines) : lines[k] = PlainA
  /\ \E k \in 1..Len(lines) : lines[k] = BulletQuad
  /\ sections.script = <<>>


\* ------------------------------------------------- reading one line (step)
\* the forEach callback is about to read lines[idx]
Reading == pc = "parsing" /\ idx <= Len(lines)

\* the marker that decides the handling of the line: the first of MarkerOrder
\* it contains, "none" for a line without marker
EffectiveMarker(line) ==
  IF HasAnyMarker(line)
  THEN MarkerOrder[CHOOSE k \in 1..9 :
                     /\ HasMarker(line, MarkerOrder[k])
                     /\ \A j \in 1..(k - 1) : ~HasMarker(line, MarkerOrder[j])]
  ELSE "none"

\* the section a marker opens
SectionNames ==
  <<"summary", "assumptions", "script", "tests", "dockerfile", "cicd", "failures",
    "metrics", "usage">>
SectionName(m) == SectionNames[CHOOSE k \in 1..9 : MarkerOrder[k] = m]

CodeMarkers == {MScript, MTests, MDockerfile, MCicd}

\* the line is read as content of a code section
CodeContent(line) ==
  /\ currentSection \in CodeSections
  /\ ~HasAnyMarker(line)

\* C11: the pass ends by trimming the tests text; a trimmed text that is
\* exactly N/A is returned as the empty string, any other trimmed text is
\* returned as it is.
C11_SentinelDropped ==
  [][(pc = "parsing" /\ pc' = "returned") =>
       sections'.tests =
         IF Trim(sections.tests) = <<NA>> THEN <<>> ELSE Trim(sections.tests)]_vars

\* a pass has ended on a tests section whose only line is N/A
C11_Witness ==
  /\ pc = "returned"
  /\ Occurrences(MTests) = 1
  /\ LineOf(MTests) < Len(lines)
  /\ lines[LineOf(MTests) + 1] = NotApplicable
  /\ (LineOf(MTests) + 2 <= Len(lines) => HasAnyMarker(lines[LineOf(MTests) + 2]))
  /\ sections.tests = <<>>


\* C12: while currentSection is failures, a bullet line with fewer than three
\* parts leaves failureSimulations as it is, and a bullet line with three or
\* more parts appends one record made of its first three trimmed parts.
C12_FailureBullets ==
  [][(Reading /\ currentSection = "failures" /\ ~HasAnyMarker(lines[idx])
        /\ IsBullet(lines[idx])) =>
       LET parts == TrimAll(Split(Tail(Trim(lines[idx])), "|")) IN
       sections'.failureSimulations =
         IF Len(parts) < 3
         THEN sections.failureSimulations
         ELSE Append(sections.failureSimulations,
                     [scenario |-> parts[1], trigger |-> parts[2],
                      behavior |-> parts[3]])]_vars

\* a two-part bullet and then a four-part bullet have been read in the
\* failures section: one record, of the first three parts of the second
C12_Witness ==
  /\ pc = "parsing"
  /\ currentSection = "failures"
  /\ idx >= 3
  /\ lines[idx - 2] = BulletPair
  /\ lines[idx - 1] = BulletQuad
  /\ sections.failureSimulations =
       <<[scenario |-> <<"b">>, trigger |-> <<"a">>, behavior |-> <<"b">>]>>

\* the section that is current when line k is read: the section of the last
\* line before k whose deciding marker opens a section
SectionBefore(k) ==
  LET openers == {j \in 1..(k - 1) : EffectiveMarker(lines[j]) \notin {"none", MMetrics}}
  IN  IF openers = {} THEN "none" ELSE SectionName(EffectiveMarker(lines[Max(openers)]))

\* line k is a bullet read as content of the given list section
ListBullet(k, section) ==
  /\ ~HasAnyMarker(lines[k])
  /\ SectionBefore(k) = section
  /\ IsBullet(lines[k])

\* the entries that the assumption bullets among lines 1..n stand for, in
\* the order of the lines
RECURSIVE AssumptionsUpTo(_)
AssumptionsUpTo(n) ==
  IF n = 0 THEN <<>>
  ELSE IF ListBullet(n, "assumptions")
       THEN Append(AssumptionsUpTo(n - 1), Trim(Tail(Trim(lines[n]))))
       ELSE AssumptionsUpTo(n - 1)

\* the records that the failure bullets among lines 1..n stand for, in the
\* order of the lines
RECURSIVE FailuresUpTo(_)
FailuresUpTo(n) ==
  IF n = 0 THEN <<>>
  ELSE IF ListBullet(n, "failures") /\ IsFailureBullet(lines[n])
       THEN LET parts == TrimAll(Split(Tail(Trim(lines[n])), "|")) IN
            Append(FailuresUpTo(n - 1),
                   [scenario |-> parts[1], trigger |-> parts[2], behavior |-> parts[3]])
       ELSE FailuresUpTo(n - 1)

IsPrefix(a, b) == Len(a) <= Len(b) /\ SubSeq(b, 1, Len(a)) = a

\* C13: the assumptions list and the failureSimulations list hold the entries
\* of the lines read so far in the order of these lines, and a step of the
\* pass only ever appends to them, also when a list marker occurs again.
C13_SourceOrder ==
  /\ [](pc \in {"parsing", "returned"} =>
          /\ sections.assumptions = AssumptionsUpTo(idx - 1)
          /\ sections.failureSimulations = FailuresUpTo(idx - 1))
  /\ [][pc = "parsing" =>
          /\ IsPrefix(sections.assumptions, sections'.assumptions)
          /\ IsPrefix(sections.failureSimulations, sections'.failureSimulations)]_vars

\* a pass has ended on an input that enters the assumptions section twice,
\* with different bullets on both sides
C13_Witness ==
  /\ pc = "returned"
  /\ Occurrences(MAssumptions) = 2
  /\ Len(lines) = 5
  /\ lines[2] = BulletQuad
  /\ lines[4] = Bullet
  /\ lines[5] = BulletPair
  /\ Len(sections.assumptions) = 3
  /\ sections.assumptions[1] # sections.assumptions[2]


\* C14: a summary marker line sets the summary to the rest of the line after
\* the marker; after it, while currentSection is summary, each non-empty
\* trimmed line without marker is appended behind a single space (no space
\* when the summary is still empty), unless the trimmed line is already a
\* substring of the summary, in which case it is skipped; no other line
\* changes the summary.
C14_SummaryText ==
  [][Reading =>
       LET line == lines[idx]
           trimmed == Trim(line)
           old == sections.summary
       IN  sections'.summary =
             IF HasMarker(line, MSummary) THEN RemoveHeader(trimmed, MSummary)
             ELSE IF ~HasAnyMarker(line) /\ currentSection = "summary" /\ trimmed # <<>>
                       /\ ~Includes(old, trimmed)
               THEN IF old = <<>> THEN trimmed ELSE old \o <<SP>> \o trimmed
             ELSE old]_vars

\* the header's text, then a line that repeats it, then a new line: the
\* repetition is skipped and the new line follows a single space
C14_Witness ==
  /\ pc = "returned"
  /\ lines = <<SummaryHeader, PlainA, PlainB>>
  /\ sections.summary = <<"a", SP, "b">>

\* the text has neither leading nor trailing whitespace
NoOuterWhitespace(s) ==
  s = <<>> \/ (~IsWhitespace(s[1]) /\ ~IsWhitespace(s[Len(s)]))

\* no line of the text is a fence line
NoFenceLine(s) ==
  \A k \in 1..Len(Split(s, NL)) : ~IsFence(Split(s, NL)[k])

\* C15: in every result script, tests, dockerfile and cicd have no leading or
\* trailing whitespace and no fence line; a fence line read in a code section
\* is not appended, and every other line without marker read there is
\* appended as it is, after the lines appended before.
C15_CodeBlobs ==
  /\ [](pc = "returned" =>
          \A f \in CodeSections :
            NoOuterWhitespace(sections[f]) /\ NoFenceLine(sections[f]))
  /\ [][(Reading /\ CodeContent(lines[idx])) =>
          IF IsFence(lines[idx])
          THEN sections' = sections
          ELSE sections'[currentSection] =
                 sections[currentSection] \o lines[idx] \o <<NL>>]_vars

\* a pass has ended on a script section of an opening fence, one line and a
\* closing fence
C15_Witness ==
  /\ pc = "returned"
  /\ Len(lines) >= 4
  /\ SubSeq(lines, 1, 4) = <<ScriptHeader, FenceOpen, PlainB, FenceClose>>
  /\ Occurrences(MScript) = 1
  /\ sections.script = <<"b">>


\* C16: at most one generation call is in flight: while a call is pending the
\* application is idle in its loading state without error, so that neither
\* the submit button nor the Retry button can start another call, and while
\* the handler of a completed call runs no call is pending.
C16_SingleRequestInFlight ==
  /\ inflight \in {0, 1}
  /\ inflight = 1 => (pc = "idle" /\ isLoading /\ error = NULL)
  /\ pc # "idle" => (inflight = 0 /\ isLoading)

\* a second request is pending after an earlier one has completed, the
\* description still filled in
C16_Witness ==
  /\ inflight = 1
  /\ pc = "idle"
  /\ callOutcome = "none"
  /\ text # <<>>
  /\ Trim(description) # <<>>

\* C17: a fault is not retried automatically: a generation call is issued
\* only by a user event (the enabled submit button or the Retry button, with
\* a non-blank description) and each such event issues exactly one call;
\* after a rejected call the error is shown and no call is pending.
C17_NoAutomaticRetry ==
  /\ [][inflight' > inflight =>
          /\ pc = "idle" /\ pc' = "idle"
          /\ inflight' = inflight + 1
          /\ Trim(description) # <<>>
          /\ (error # NULL \/ ~isLoading)]_vars
  /\ []((callOutcome = "rejected" /\ pc = "idle") =>
          (error = EngineFaultMessage /\ ~isLoading /\ inflight = 0))

\* the handler has finished after a rejected call: the error is shown and
\* nothing is pending
C17_Witness ==
  /\ pc = "idle"
  /\ callOutcome = "rejected"
  /\ error = EngineFaultMessage
  /\ ~isLoading
  /\ inflight = 0


\* C18: a line that contains a marker is handled as a marker line whatever
\* currentSection and inCodeBlock are: it is appended to no code buffer and to
\* no list, and of several markers only the first in the order summary,
\* assumptions, script, tests, dockerfile, cicd, failures, metrics, usage
\* takes effect (it alone decides currentSection, and summary, usage and
\* metrics change only for their own marker).
C18_MarkerLines ==
  [][(Reading /\ HasAnyMarker(lines[idx])) =>
       LET line == lines[idx]
           m == EffectiveMarker(line)
       IN  /\ \A f \in CodeSections \cup {"assumptions", "failureSimulations"} :
                sections'[f] = sections[f]
           /\ sections'.summary =
                IF m = MSummary THEN RemoveHeader(Trim(line), MSummary)
                ELSE sections.summary
           /\ sections'.usage =
                IF m = MUsage THEN RemoveHeader(Trim(line), MUsage)
                ELSE sections.usage
           /\ m # MMetrics => sections'.metrics = sections.metrics
           /\ currentSection' =
                IF m = MMetrics THEN currentSection ELSE SectionName(m)]_vars

\* a line with the script marker and the summary marker has been read inside
\* an open fence of the script section: it opened the summary section
C18_Witness ==
  /\ pc = "returned"
  /\ lines = <<ScriptHeader, FenceOpen, Embedded>>
  /\ inCodeBlock
  /\ currentSection = "summary"
  /\ sections.script = <<>>
  /\ sections.summary = <<"b">>

\* C19: a metrics line leaves currentSection, inCodeBlock and every field but
\* metrics as they are, and with fewer than four parts metrics as well.
C19_MetricsLineFrame ==
  [][(Reading /\ EffectiveMarker(lines[idx]) = MMetrics) =>
       /\ currentSection' = currentSection
       /\ inCodeBlock' = inCodeBlock
       /\ \A f \in DOMAIN sections \ {"metrics"} : sections'[f] = sections[f]
       /\ Len(PartsOf(lines[idx])) < 4 => sections'.metrics = sections.metrics]_vars

\* a metrics line has been read inside the script section and the line after
\* it has been captured as script
C19_Witness ==
  /\ pc = "returned"
  /\ lines = <<ScriptHeader, MetricsOdd, PlainB>>
  /\ sections.script = <<"b">>
  /\ sections.metrics.timeSavedMinutes = 30

\* C20: a script, tests, dockerfile or cicd marker line sets inCodeBlock to
\* false and changes no buffer, and the content lines read in a code section
\* extend what its buffer holds already: after a second occurrence of the
\* marker the new lines follow the content of the first.
C20_CodeMarkerKeepsBuffer ==
  /\ [][(Reading /\ EffectiveMarker(lines[idx]) \in CodeMarkers) =>
          /\ inCodeBlock' = FALSE
          /\ sections' = sections
          /\ currentSection' = SectionName(EffectiveMarker(lines[idx]))]_vars
  /\ [][(Reading /\ CodeContent(lines[idx])) =>
          /\ IsPrefix(sections[currentSection], sections'[currentSection])
          /\ ~IsFence(lines[idx]) =>
               Len(sections'[currentSection]) > Len(sections[currentSection])]_vars

\* a pass has ended on two dockerfile sections: the line of the second
\* follows the line of the first
C20_Witness ==
  /\ pc = "returned"
  /\ lines = <<DockerfileHeader, FenceOpen, PlainB, FenceClose, DockerfileHeader, PlainA>>
  /\ sections.dockerfile = <<"b", NL, SP, SP, "a">>


\* the parser's locals after the line, had inCodeBlock been b before it
WithFlag(b, line) ==
  HandleLine([sections |-> sections, currentSection |-> currentSection,
              inCodeBlock |-> b], line)

\* C21: inCodeBlock never gates capture: whatever its value, a line read by
\* the parser leaves the same sections and the same currentSection, and a
\* line of a code section that is neither a marker line nor a fence line is
\* appended as it is, followed by a newline, with inCodeBlock true as with
\* inCodeBlock false; a parser without inCodeBlock produces the same output.
C21_FlagNeverGates ==
  [][Reading =>
       /\ \A b \in BOOLEAN :
            /\ WithFlag(b, lines[idx]).sections = sections'
            /\ WithFlag(b, lines[idx]).currentSection = currentSection'
            /\ (CodeContent(lines[idx]) /\ ~IsFence(lines[idx])) =>
                 /\ WithFlag(b, lines[idx]).inCodeBlock = b
                 /\ WithFlag(b, lines[idx]).sections[currentSection] =
                      sections[currentSection] \o lines[idx] \o <<NL>>]_vars

\* a pass has ended on a script section entered twice: the line before the
\* opening fence and the line inside the fence are both in the script
C21_Witness ==
  /\ pc = "returned"
  /\ lines = <<ScriptHeader, PlainA, ScriptHeader, FenceOpen, PlainB, FenceClose>>
  /\ ~inCodeBlock
  /\ sections.script = <<"a", NL, "b">>

\* C22: in the assumptions section a line without marker whose trimmed form
\* starts with "-" appends one entry, the trimmed text after the "-", at the
\* end of the assumptions list and changes nothing else; a line without
\* marker that does not start with "-" changes neither the sections nor
\* currentSection nor inCodeBlock.
C22_AssumptionBullets ==
  [][(Reading /\ currentSection = "assumptions" /\ ~HasAnyMarker(lines[idx])) =>
       /\ currentSection' = currentSection
       /\ inCodeBlock' = inCodeBlock
       /\ sections' =
            IF IsBullet(lines[idx])
            THEN [sections EXCEPT
                    !.assumptions = Append(@, Trim(Tail(Trim(lines[idx]))))]
            ELSE sections]_vars

\* a pass has ended on an assumptions section of a plain line, a bullet and
\* a bullet with a pipe: the two bullets are the entries
C22_Witness ==
  /\ pc = "returned"
  /\ Len(lines) >= 5
  /\ SubSeq(lines, 1, 5) =
       <<SummaryHeader, AssumptionsHeader, PlainB, Bullet, BulletPair>>
  /\ sections.assumptions = <<<<"a">>, <<"a", "|", "b">>>>


\* the usage text that lines 1..n stand for: the rest of the last usage
\* marker line, then the trimmed non-empty lines read in the usage section,
\* single spaces between the non-empty pieces
RECURSIVE UsageUpTo(_)
UsageUpTo(n) ==
  IF n = 0 THEN <<>>
  ELSE LET line == lines[n]
           prev == UsageUpTo(n - 1)
       IN  IF EffectiveMarker(line) = MUsage THEN RemoveHeader(Trim(line), MUsage)
           ELSE IF ~HasAnyMarker(line) /\ SectionBefore(n) = "usage" /\ ~IsBlank(line)
             THEN IF prev = <<>> THEN Trim(line) ELSE prev \o <<SP>> \o Trim(line)
           ELSE prev

\* C23: the usage text is the rest of the usage marker line followed by every
\* later non-empty line without marker read in the usage section, trimmed,
\* with single spaces in between, a line that repeats earlier text included;
\* an empty line of the usage section changes nothing.
C23_UsageText ==
  /\ [](pc \in {"parsing", "returned"} => sections.usage = UsageUpTo(idx - 1))
  /\ [][(Reading /\ currentSection = "usage" /\ ~HasAnyMarker(lines[idx])) =>
          /\ currentSection' = currentSection
          /\ inCodeBlock' = inCodeBlock
          /\ IsBlank(lines[idx]) => sections' = sections
          /\ ~IsBlank(lines[idx]) =>
               /\ Len(sections'.usage) >= Len(sections.usage) + Len(Trim(lines[idx]))
               /\ \A f \in DOMAIN sections \ {"usage"} : sections'[f] = sections[f]]_vars

\* the header's text, an empty line, and a line that repeats the header's
\* text: the empty line adds nothing and the repetition is appended
C23_Witness ==
  /\ pc = "returned"
  /\ lines = <<UsageHeader, EmptyLine, PlainB>>
  /\ sections.usage = <<"b", SP, "b">>

\* the last line whose deciding marker is m
LastLineOf(m) == Max({k \in 1..Len(lines) : EffectiveMarker(lines[k]) = m})

\* the parser's locals after lines k..n, read by a fresh pass
RECURSIVE RunFrom(_, _)
RunFrom(k, n) ==
  IF n < k
  THEN [sections |-> InitialSections, currentSection |-> InitialSection,
        inCodeBlock |-> FALSE]
  ELSE HandleLine(RunFrom(k, n - 1), lines[n])

\* C24: a summary marker line sets the summary to the rest of that line
\* whatever the summary held, and a usage marker line does the same for the
\* usage text; the summary and the usage text of a result are those of a pass
\* that starts at the last line deciding for their marker.
C24_LastOccurrenceOnly ==
  /\ [][Reading =>
          /\ EffectiveMarker(lines[idx]) = MSummary =>
               sections'.summary = RemoveHeader(Trim(lines[idx]), MSummary)
          /\ EffectiveMarker(lines[idx]) = MUsage =>
               sections'.usage = RemoveHeader(Trim(lines[idx]), MUsage)]_vars
  /\ [](pc = "returned" =>
          \A m \in {MSummary, MUsage} :
            (\E k \in 1..Len(lines) : EffectiveMarker(lines[k]) = m) =>
              sections[SectionName(m)] =
                RunFrom(LastLineOf(m), Len(lines)).sections[SectionName(m)])

\* a pass has ended on two summary sections: the line of the first is gone,
\* the summary is the header's text and the line of the second
C24_Witness ==
  /\ pc = "returned"
  /\ lines = <<SummaryHeader, PlainB, SummaryHeader, Bullet>>
  /\ sections.summary = <<"a", SP, "-", SP, "a">>


\* C25: handleSubmit with an empty or whitespace-only description starts no
\* call and leaves isLoading, error, response and activeTab as they are; no
\* step taken while the description is blank starts a call.
C25_BlankSubmitIsNoOp ==
  [][(pc = "idle" /\ Trim(description) = <<>>) =>
       /\ inflight' <= inflight
       /\ HandleSubmit =>
            UNCHANGED <<isLoading, error, response, activeTab, inflight, callOutcome>>]_vars

\* a request has failed and the description is whitespace only: Retry is on
\* screen, and a click on it returns at the guard into this very state
C25_Witness ==
  /\ pc = "idle"
  /\ description = <<SP>>
  /\ error = EngineFaultMessage
  /\ ~isLoading
  /\ inflight = 0
  /\ response = NoResponse

\* the completed call resolved with a text whose parse has a script
CallSucceeded ==
  callOutcome = "resolved" /\ text # <<>> /\ sections.script # <<>>

\* C26: when every pending call resolves or rejects, a loading application
\* leaves the loading state, and the step that leaves it ends with the result
\* stored and no error after a resolved call whose parse has a script, and
\* with an error and no result in every other case.
C26_SubmitCompletes ==
  /\ isLoading ~> ~isLoading
  /\ [][(isLoading /\ ~isLoading') =>
          IF CallSucceeded
          THEN response' = <<sections>> /\ error' = NULL
          ELSE response' = NoResponse /\ error' # NULL]_vars

\* a request has completed on a text without script: loading is over, the
\* error is set and there is no result
C26_Witness ==
  /\ pc = "idle"
  /\ ~isLoading
  /\ callOutcome = "resolved"
  /\ text = PlainB
  /\ error = NoScriptMessage
  /\ response = NoResponse

\* C27: response and error are never both set; while isLoading is true both
\* are null, up to the handler's position between the assignment of the
\* outcome (line 79 or 81) and setIsLoading(false) of the same continuation;
\* the step that starts a call leaves the application loading with neither.
C27_ResultXorError ==
  /\ [](~(response # NoResponse /\ error # NULL))
  /\ []((isLoading /\ pc # "hs_finally") => (response = NoResponse /\ error = NULL))
  /\ [](pc = "idle" => (isLoading <=> inflight > 0))
  /\ [][inflight' > inflight =>
          (isLoading' /\ response' = NoResponse /\ error' = NULL)]_vars

\* a request is pending after an earlier one has failed: the earlier error
\* is gone
C27_Witness ==
  /\ pc = "idle"
  /\ inflight = 1
  /\ isLoading
  /\ thrown = EngineFaultMessage
  /\ error = NULL
  /\ response = NoResponse

====
